---- MODULE Spec2Model ----
(***************************************************************************)
(* TorchCraft replayer (src/replayer/replayer.cpp): the packed map store   *)
(* (setMap / getMap) and the replay stream codec (operator<< / operator>>).*)
(*                                                                         *)
(* A stream is a sequence of bytes (0..255).  Integers are written as      *)
(* decimal ASCII text and parsed back the way std::istream does; the map   *)
(* tiles travel as raw bytes.  A tensor of size (w, h) is its contiguous   *)
(* storage: element (x, y) lives at offset x*h + y.                        *)
(***************************************************************************)
EXTENDS Integers, Sequences, FiniteSets, TLC

\* ------------------------------------------------------------------ bounds
MaxDim == 2         \* setMap is tried on grids of 1..MaxDim by 1..MaxDim tiles
MaxTiles == 2       \* maps of the written replays hold at most MaxTiles tiles
MaxFrames == 4      \* frames pushed to a replay before it is written
MaxKeyframe == 4    \* keyframe intervals 0..MaxKeyframe
MaxUnitKey == 2     \* numUnits keys 1..MaxUnitKey

\* ------------------------------------------------------- program constants
WALKABILITY_SHIFT == 0
BUILDABILITY_SHIFT == 1
HEIGHT_SHIFT == 2
START_LOC_SHIFT == 5

\* Frame contents are defined outside replayer.cpp: a Frame is a value in
\* 0..FrameMod-1, serialised as one decimal token.
FrameMod == 2

\* --------------------------------------------------------------- bit logic
RECURSIVE Pow2(_)
Pow2(k) == IF k = 0 THEN 1 ELSE 2 * Pow2(k - 1)

RECURSIVE BitAnd(_, _)
BitAnd(a, b) ==
  IF a = 0 \/ b = 0 THEN 0
  ELSE (IF a % 2 = 1 /\ b % 2 = 1 THEN 1 ELSE 0) + 2 * BitAnd(a \div 2, b \div 2)

RECURSIVE BitOr(_, _)
BitOr(a, b) ==
  IF a = 0 THEN b
  ELSE IF b = 0 THEN a
  ELSE (IF a % 2 = 1 \/ b % 2 = 1 THEN 1 ELSE 0) + 2 * BitOr(a \div 2, b \div 2)

Shl(v, k) == v * Pow2(k)
Shr(v, k) == v \div Pow2(k)
U8(v) == v % 256

\* ------------------------------------------------------------------- state
VARIABLES
  map,        \* o.map.data: [alloc, w, h, data]; alloc = FALSE is nullptr
  keyframe,   \* o.keyframe
  frames,     \* o.frames: a slot is <<>> (nullptr) or <<v>> (a Frame)
  numUnits,   \* o.numUnits: a function on the keys present
  arg,        \* arguments of the last setMap call
  ret,        \* outputs of the last getMap call
  out,        \* the output stream of operator<<
  wpc, wi, wleft,            \* operator<<: position, i, numUnits entries left
  wlog,       \* per frame written: i, its role, the frame it refers to (ref),
              \* and whether frames[ref] was a frame (prev)
  written,    \* the Replayer as operator<< saw it
  in,         \* the input stream of operator>>: [buf, pos, eof, fail]
  rpc, ri, rj,               \* operator>>: position, i of the frame and pair loops
  rlog,       \* per frame read: as wlog
  diffed, width, height, nFrames, s,   \* locals of operator>>
  err,        \* what() of the exception operator>> threw, "" if none
  key, val,   \* locals of operator>>: <<>> while uninitialised, else <<v>>
  rpairs,     \* the (key, val) pairs operator>> stored, in order
  pre,        \* the Replayer as it was when the read began
  undef       \* the read has used an uninitialised local or buffer byte

vars == <<map, keyframe, frames, numUnits, arg, ret, out, wpc, wi, wleft, wlog,
          written, in, rpc, ri, rj, rlog, diffed, width, height, nFrames, s,
          err, key, val, rpairs, pre, undef>>

replayVars == <<map, keyframe, frames, numUnits>>
writeVars == <<out, wpc, wi, wleft, wlog, written>>
readVars == <<in, rpc, ri, rj, rlog, diffed, width, height, nFrames, s, err,
              key, val, rpairs, pre, undef>>

NullMap == [alloc |-> FALSE, w |-> 0, h |-> 0, data |-> <<>>]
NoArg == [w |-> 0, h |-> 0, walkability |-> <<>>, ground_height |-> <<>>,
          buildability |-> <<>>, start_loc_x |-> <<>>, start_loc_y |-> <<>>]
NoRet == [called |-> FALSE, walkability |-> <<>>, ground_height |-> <<>>,
          buildability |-> <<>>, start_loc_x |-> <<>>, start_loc_y |-> <<>>]
EmptyUnits == [k \in {} |-> 0]
Replayer == [map |-> map, keyframe |-> keyframe, frames |-> frames,
             numUnits |-> numUnits]
EmptyReplayer == [map |-> NullMap, keyframe |-> 0, frames |-> <<>>,
                  numUnits |-> EmptyUnits]
NewStream == [buf |-> <<>>, pos |-> 0, eof |-> FALSE, fail |-> FALSE]

\* ---------------------------------------------------------- packed map store
\* Offset of element (x, y) in the storage of a contiguous (w, h) tensor, 1-based.
Off(h, x, y) == x * h + y + 1

\* THTensor_fastGet2d / THTensor_fastSet2d on map.data
fastGet2d(m, x, y) == m.data[Off(m.h, x, y)]
fastSet2d(m, x, y, v) == [m EXCEPT !.data[Off(m.h, x, y)] = U8(v)]

\* Packed with the height masked to two bits.
Packed_twoBits(vw, vb, vg) ==
  LET v_w == BitAnd(vw, 1)
      v_b == BitAnd(vb, 1)
      v_g == BitAnd(vg, 3)
  IN U8(BitOr(BitOr(Shl(v_w, WALKABILITY_SHIFT), Shl(v_b, BUILDABILITY_SHIFT)),
              Shl(v_g, HEIGHT_SHIFT)))

\* The byte setMap packs for one tile.
Packed(vw, vb, vg) ==
  LET v_w == BitAnd(vw, 1)
      v_b == BitAnd(vb, 1)
      v_g == BitAnd(vg, 7)
  IN U8(BitOr(BitOr(Shl(v_w, WALKABILITY_SHIFT), Shl(v_b, BUILDABILITY_SHIFT)),
              Shl(v_g, HEIGHT_SHIFT)))

\* The second loop of setMap: OR the start-location bit in at each (x, y).
RECURSIVE MarkStarts(_, _, _, _)
MarkStarts(m, sx, sy, k) ==
  IF k > Len(sx) THEN m
  ELSE LET x == sx[k]
           y == sy[k]
           v == BitOr(fastGet2d(m, x, y), Shl(1, START_LOC_SHIFT))
       IN MarkStarts(fastSet2d(m, x, y, v), sx, sy, k + 1)

\* map.data after setMap(w, h, walkability, ground_height, buildability, sx, sy)
SetMapResult(w, h, wk, gh, bd, sx, sy) ==
  LET fresh == [alloc |-> TRUE, w |-> w, h |-> h,
                data |-> [p \in 1..(w * h) |->
                            Packed(wk[p], bd[p], gh[p])]]
  IN MarkStarts(fresh, sx, sy, 1)

\* The fields getMap extracts from one tile byte.
TileWalk(v) == BitAnd(Shr(v, WALKABILITY_SHIFT), 1)
TileBuild(v) == BitAnd(Shr(v, BUILDABILITY_SHIFT), 1)
TileHeight_twoBits(v) == BitAnd(Shr(v, HEIGHT_SHIFT), 3)
TileHeight(v) == BitAnd(Shr(v, HEIGHT_SHIFT), 7)
TileStart(v) == BitAnd(Shr(v, START_LOC_SHIFT), 1) = 1

\* The cells of a (w, h) grid in getMap's traversal order: x outer, y inner.
Cells(w, h) == [p \in 1..(w * h) |-> <<(p - 1) \div h, (p - 1) % h>>]

RECURSIVE StartsOf(_, _, _)
StartsOf(m, cells, k) ==
  IF k > Len(cells) THEN <<>>
  ELSE LET c == cells[k]
           rest == StartsOf(m, cells, k + 1)
       IN IF TileStart(fastGet2d(m, c[1], c[2])) THEN <<c>> \o rest ELSE rest

GetMapResult(m) ==
  LET cells == Cells(m.w, m.h)
      st == StartsOf(m, cells, 1)
  IN [called |-> TRUE,
      walkability |-> [p \in 1..(m.w * m.h) |->
                         TileWalk(fastGet2d(m, cells[p][1], cells[p][2]))],
      buildability |-> [p \in 1..(m.w * m.h) |->
                         TileBuild(fastGet2d(m, cells[p][1], cells[p][2]))],
      ground_height |-> [p \in 1..(m.w * m.h) |->
                         TileHeight(fastGet2d(m, cells[p][1], cells[p][2]))],
      start_loc_x |-> [k \in 1..Len(st) |-> st[k][1]],
      start_loc_y |-> [k \in 1..Len(st) |-> st[k][2]]]

\* Input bytes for setMap: a cyclic walk through a list of values.
Cyc(vals, n, a) == [p \in 1..n |-> vals[((a + p - 1) % Len(vals)) + 1]]
HeightVals == <<0, 1, 2, 3, 4, 5, 6, 7, 8, 13, 255>>
FlagVals == <<0, 0, 1, 1, 0, 2, 255>>
\* Start-location lists for a (w, h) grid, all in range; one repeats a tile.
StartLists(w, h) ==
  { <<>>, << <<0, 0>> >>, << <<w - 1, 0>>, <<0, h - 1>>, <<w - 1, 0>> >> }

setMap(w, h, wk, gh, bd, sx, sy) ==
  /\ wpc = "idle" /\ rpc = "idle"
  /\ map' = SetMapResult(w, h, wk, gh, bd, sx, sy)
  /\ arg' = [w |-> w, h |-> h, walkability |-> wk, ground_height |-> gh,
             buildability |-> bd, start_loc_x |-> sx, start_loc_y |-> sy]
  /\ ret' = NoRet
  /\ UNCHANGED <<keyframe, frames, numUnits>>
  /\ UNCHANGED writeVars
  /\ UNCHANGED readVars

getMap ==
  /\ map.alloc
  /\ wpc = "idle" /\ rpc = "idle"
  /\ ret' = GetMapResult(map)
  /\ UNCHANGED <<arg>>
  /\ UNCHANGED replayVars
  /\ UNCHANGED writeVars
  /\ UNCHANGED readVars

Init ==
  /\ map = NullMap
  /\ keyframe = 0
  /\ frames = <<>>
  /\ numUnits = EmptyUnits
  /\ arg = NoArg
  /\ ret = NoRet
  /\ out = <<>>
  /\ wpc = "idle"
  /\ wi = 0
  /\ wleft = {}
  /\ wlog = <<>>
  /\ written = EmptyReplayer
  /\ in = NewStream
  /\ rpc = "idle"
  /\ ri = 0
  /\ rj = 0
  /\ rlog = <<>>
  /\ diffed = 0
  /\ width = 0
  /\ height = 0
  /\ nFrames = 0
  /\ s = 0
  /\ err = ""
  /\ key = <<>>
  /\ val = <<>>
  /\ rpairs = <<>>
  /\ pre = EmptyReplayer
  /\ undef = FALSE

\* ------------------------------------------------------------ text streams
SP == <<32>>
IsSpace(c) == c \in {9, 10, 11, 12, 13, 32}
IsDigit(c) == c >= 48 /\ c <= 57

\* operator<< on an integer: decimal text, '-' first when negative.
RECURSIVE Digits(_)
Digits(n) == IF n < 10 THEN <<48 + n>> ELSE Append(Digits(n \div 10), 48 + (n % 10))
FormatInt(n) == IF n < 0 THEN <<45>> \o Digits(0 - n) ELSE Digits(n)

good(st) == ~st.eof /\ ~st.fail

RECURSIVE SkipWs(_, _)
SkipWs(buf, p) ==
  IF p < Len(buf) /\ IsSpace(buf[p + 1]) THEN SkipWs(buf, p + 1) ELSE p

RECURSIVE DigitsEnd(_, _)
DigitsEnd(buf, p) ==
  IF p < Len(buf) /\ IsDigit(buf[p + 1]) THEN DigitsEnd(buf, p + 1) ELSE p

RECURSIVE DigitsValue(_, _, _, _)
DigitsValue(buf, p, q, acc) ==
  IF p >= q THEN acc ELSE DigitsValue(buf, p + 1, q, 10 * acc + (buf[p + 1] - 48))

\* operator>> on an integer.  set = FALSE: the target is left as it was (the
\* stream was not good, or only white space was left).  A token without
\* digits sets failbit and stores 0.  neg tells a leading '-'.
ExtractInt(st) ==
  IF ~good(st) THEN [in |-> [st EXCEPT !.fail = TRUE], set |-> FALSE, v |-> 0, neg |-> FALSE]
  ELSE
    LET p0 == SkipWs(st.buf, st.pos)
    IN IF p0 >= Len(st.buf)
       THEN [in |-> [st EXCEPT !.pos = p0, !.eof = TRUE, !.fail = TRUE],
             set |-> FALSE, v |-> 0, neg |-> FALSE]
       ELSE
         LET sign == st.buf[p0 + 1] \in {43, 45}
             neg == st.buf[p0 + 1] = 45
             p1 == IF sign THEN p0 + 1 ELSE p0
             p2 == DigitsEnd(st.buf, p1)
             mag == DigitsValue(st.buf, p1, p2, 0)
         IN [in |-> [st EXCEPT !.pos = p2, !.eof = (p2 >= Len(st.buf)),
                               !.fail = (p2 = p1)],
             set |-> TRUE,
             v |-> IF neg THEN 0 - mag ELSE mag,
             neg |-> neg /\ mag > 0]

\* in.ignore(1) left out.
Ignore1_none(st) == st

\* in.ignore(1)
Ignore1(st) ==
  IF ~good(st) THEN [st EXCEPT !.fail = TRUE]
  ELSE IF st.pos < Len(st.buf) THEN [st EXCEPT !.pos = st.pos + 1]
  ELSE [st EXCEPT !.eof = TRUE]

\* How many of the n bytes in.read(data, n) leaves unwritten.
ReadShort(st, n) ==
  IF ~good(st) THEN n
  ELSE IF Len(st.buf) - st.pos >= n THEN 0 ELSE n - (Len(st.buf) - st.pos)

\* in.read(data, n) into a buffer that held the bytes `garbage` (its last
\* ReadShort(st, n) bytes stay as they were).
ReadBytes(st, n, garbage) ==
  IF ~good(st) THEN [in |-> [st EXCEPT !.fail = TRUE], data |-> garbage]
  ELSE LET avail == Len(st.buf) - st.pos
       IN IF avail >= n
          THEN [in |-> [st EXCEPT !.pos = st.pos + n],
                data |-> SubSeq(st.buf, st.pos + 1, st.pos + n)]
          ELSE [in |-> [st EXCEPT !.pos = Len(st.buf), !.eof = TRUE, !.fail = TRUE],
                data |-> SubSeq(st.buf, st.pos + 1, Len(st.buf)) \o garbage]

\* What an uninitialised local or a byte of a fresh THAlloc buffer may hold.
UninitInt == {-1, 0, 1}
UninitSize == {0, 1}
UninitByte == {0, 255}

\* ------------------------------------------- Replayer members of replayer.h
setRawMap(w, h, d) == [alloc |-> TRUE, w |-> w, h |-> h, data |-> d]

\* Frames and frame diffs (frame.h): one decimal token each.
FrameText(f) == FormatInt(f[1])
frame_diff(f, p) == <<(f[1] - p[1]) % FrameMod>>
frame_undiff(du, p) == <<(du[1] + p[1]) % FrameMod>>

setKeyFrame(x) ==
  /\ wpc = "idle" /\ rpc = "idle"
  /\ keyframe # x
  /\ keyframe' = x
  /\ UNCHANGED <<map, frames, numUnits, arg, ret>>
  /\ UNCHANGED writeVars
  /\ UNCHANGED readVars

push(f) ==
  /\ wpc = "idle" /\ rpc = "idle"
  /\ Len(frames) < MaxFrames
  /\ frames' = Append(frames, <<f>>)
  /\ UNCHANGED <<map, keyframe, numUnits, arg, ret>>
  /\ UNCHANGED writeVars
  /\ UNCHANGED readVars

UnitVal(k) == IF k % 2 = 1 THEN 7 * k ELSE 0 - (7 * k)

setNumUnits(k, n) ==
  /\ wpc = "idle" /\ rpc = "idle"
  /\ k \notin DOMAIN numUnits
  /\ numUnits' = [x \in DOMAIN numUnits \cup {k} |-> IF x = k THEN n ELSE numUnits[x]]
  /\ UNCHANGED <<map, keyframe, frames, arg, ret>>
  /\ UNCHANGED writeVars
  /\ UNCHANGED readVars

\* A fresh, empty Replayer takes the place of the one just written.
NewReplayer ==
  /\ wpc = "done" /\ rpc = "idle"
  /\ Replayer # EmptyReplayer
  /\ map' = NullMap
  /\ keyframe' = 0
  /\ frames' = <<>>
  /\ numUnits' = EmptyUnits
  /\ UNCHANGED <<arg, ret>>
  /\ UNCHANGED writeVars
  /\ UNCHANGED readVars

\* ------------------------------------------------------------- operator<<
\* The writer counting positions from 1.
WriterFull_fromOne(i, keyfr) ==
  LET kf == IF keyfr = 0 THEN 1 ELSE keyfr
  IN (i + 1) % kf = 0

\* The role of position i in the writer: a full Frame or a FrameDiff.
WriterFull(i, keyfr) ==
  LET kf == IF keyfr = 0 THEN 1 ELSE keyfr
  IN i % kf = 0

\* Lines 20-29: sizes, header, raw map bytes, frame count.
WriteHead(o) ==
  (IF o.keyframe # 0 THEN FormatInt(0) \o SP \o FormatInt(o.keyframe) \o SP ELSE <<>>)
  \o FormatInt(o.map.w) \o SP \o FormatInt(o.map.h) \o SP
  \o SubSeq(o.map.data, 1, o.map.h * o.map.w)
  \o FormatInt(Len(o.frames)) \o SP

\* THByteTensor_size on map.data == nullptr.
WriteNullMap ==
  /\ wpc = "idle" /\ rpc = "idle"
  /\ ~map.alloc
  /\ wpc' = "segv"
  /\ UNCHANGED <<out, wi, wleft, wlog, written, arg, ret>>
  /\ UNCHANGED replayVars
  /\ UNCHANGED readVars

WriteHeader ==
  /\ wpc = "idle" /\ rpc = "idle"
  /\ map.alloc
  /\ out' = WriteHead(Replayer)
  /\ written' = Replayer
  /\ wi' = 0
  /\ wlog' = <<>>
  /\ wpc' = "frames"
  /\ UNCHANGED <<wleft, arg, ret>>
  /\ UNCHANGED replayVars
  /\ UNCHANGED readVars

\* Lines 30-33: one iteration of the frame loop.
WriteFrame ==
  /\ wpc = "frames"
  /\ wi < Len(frames)
  /\ IF WriterFull(wi, keyframe)
     THEN /\ out' = out \o FrameText(frames[wi + 1]) \o SP
          /\ wlog' = Append(wlog, [i |-> wi, role |-> "Frame", ref |-> wi, prev |-> TRUE])
          /\ wpc' = "frames"
     ELSE IF wi >= 1 /\ frames[wi] # <<>>
     THEN /\ out' = out \o FrameText(frame_diff(frames[wi + 1], frames[wi])) \o SP
          /\ wlog' = Append(wlog, [i |-> wi, role |-> "FrameDiff", ref |-> wi - 1, prev |-> TRUE])
          /\ wpc' = "frames"
     ELSE /\ out' = out
          /\ wlog' = Append(wlog, [i |-> wi, role |-> "FrameDiff", ref |-> wi - 1, prev |-> FALSE])
          /\ wpc' = "segv"
  /\ wi' = wi + 1
  /\ UNCHANGED <<wleft, written, arg, ret>>
  /\ UNCHANGED replayVars
  /\ UNCHANGED readVars

\* Line 35: the number of numUnits entries.
WriteUnitCount ==
  /\ wpc = "frames"
  /\ wi >= Len(frames)
  /\ out' = out \o FormatInt(Cardinality(DOMAIN numUnits)) \o SP
  /\ wleft' = DOMAIN numUnits
  /\ wpc' = "units"
  /\ UNCHANGED <<wi, wlog, written, arg, ret>>
  /\ UNCHANGED replayVars
  /\ UNCHANGED readVars

\* Lines 36-38: one entry; an unordered_map yields its entries in any order.
WriteUnit ==
  /\ wpc = "units"
  /\ \E k \in wleft :
       /\ out' = out \o FormatInt(k) \o SP \o FormatInt(numUnits[k]) \o SP
       /\ wleft' = wleft \ {k}
  /\ UNCHANGED <<wpc, wi, wlog, written, arg, ret>>
  /\ UNCHANGED replayVars
  /\ UNCHANGED readVars

\* Line 40.
WriteReturn ==
  /\ wpc = "units"
  /\ wleft = {}
  /\ wpc' = "done"
  /\ UNCHANGED <<out, wi, wleft, wlog, written, arg, ret>>
  /\ UNCHANGED replayVars
  /\ UNCHANGED readVars

\* ------------------------------------------------------------- operator>>
\* The reader taking every position for a full Frame.
ReaderFull_always(i, keyfr) == TRUE

\* The role of position i in the reader (lines 70 and 75).
ReaderFull(i, keyfr) == keyfr = 0 \/ i % keyfr = 0

\* in >> *frame on a default-constructed Frame; in >> du on a fresh FrameDiff.
ExtractFrame(st) ==
  LET r == ExtractInt(st)
  IN [in |-> r.in, f |-> IF r.set THEN <<r.v>> ELSE <<0>>]

\* frames.resize(n): the first slots are kept, new slots are nullptr.
Resize(fr, n) == [k \in 1..n |-> IF k <= Len(fr) THEN fr[k] ELSE <<>>]

\* numUnits.emplace(k, v): an entry already present is kept.
Store_keepFirst(nu, k, v) ==
  [x \in DOMAIN nu \cup {k} |-> IF x \in DOMAIN nu THEN nu[x] ELSE v]

\* numUnits[k] = v
Store(nu, k, v) == [x \in DOMAIN nu \cup {k} |-> IF x = k THEN v ELSE nu[x]]

\* The caller opens a stream on the bytes `bytes` and calls operator>>, once
\* per Replayer object.
ReadBegin(bytes) ==
  /\ wpc \in {"idle", "done"}
  /\ rpc = "idle"
  /\ in' = [buf |-> bytes, pos |-> 0, eof |-> FALSE, fail |-> FALSE]
  /\ rpc' = "header"
  /\ pre' = Replayer
  /\ undef' = FALSE
  /\ ri' = 0
  /\ rj' = 0
  /\ rlog' = <<>>
  /\ rpairs' = <<>>
  /\ diffed' = 0
  /\ width' = 0
  /\ height' = 0
  /\ nFrames' = 0
  /\ s' = 0
  /\ key' = <<>>
  /\ val' = <<>>
  /\ err' = ""
  /\ UNCHANGED <<arg, ret>>
  /\ UNCHANGED replayVars
  /\ UNCHANGED writeVars

\* The header as lines 49-59 parse it.  A local that no extraction writes
\* keeps whatever the stack held.
Header(st, kf0) ==
  LET r1 == ExtractInt(st)
  IN { h \in
       UNION { IF d = 0
               THEN LET r2 == ExtractInt(r1.in)
                        r3 == ExtractInt(r2.in)
                        r4 == ExtractInt(r3.in)
                    IN { [in |-> r4.in, diffed |-> 1,
                          keyframe |-> IF r2.set THEN r2.v ELSE kf0,
                          width |-> w, height |-> hh,
                          undef |-> ~r1.set \/ ~r3.set \/ ~r4.set] :
                         w \in (IF r3.set THEN {r3.v} ELSE UninitInt),
                         hh \in (IF r4.set THEN {r4.v} ELSE UninitInt) }
               ELSE LET r4 == ExtractInt(r1.in)
                    IN { [in |-> r4.in, diffed |-> 0, keyframe |-> 0,
                          width |-> d, height |-> hh,
                          undef |-> ~r1.set \/ ~r4.set] :
                         hh \in (IF r4.set THEN {r4.v} ELSE UninitInt) }
             : d \in (IF r1.set THEN {r1.v} ELSE UninitInt) } : TRUE }

\* The size check letting zero through.
BadSize_negativeOnly(w, h) == h < 0 \/ w < 0

\* The count check letting -1 through.
BadCount_belowMinusOne(n) == n < 0 - 1

\* Line 60.
BadSize(w, h) == h <= 0 \/ w <= 0

\* Line 89.
BadCount(n) == n < 0

\* Lines 49-65.
ReadHeader ==
  /\ rpc = "header"
  /\ \E h \in Header(in, keyframe) :
       /\ diffed' = h.diffed
       /\ keyframe' = h.keyframe
       /\ width' = h.width
       /\ height' = h.height
       /\ IF BadSize(h.width, h.height)
          THEN /\ err' = "Corrupted replay: invalid map size"
               /\ rpc' = "error"
               /\ in' = h.in
               /\ map' = map
               /\ undef' = h.undef
          ELSE LET st == Ignore1(h.in)
                   n == h.height * h.width
               IN \E garbage \in [1..ReadShort(st, n) -> UninitByte] :
                    LET rd == ReadBytes(st, n, garbage)
                    IN /\ in' = rd.in
                       /\ map' = setRawMap(h.width, h.height, rd.data)
                       /\ rpc' = "nframes"
                       /\ err' = err
                       /\ undef' = (h.undef \/ ReadShort(st, n) > 0)
  /\ UNCHANGED <<frames, numUnits, arg, ret, ri, rj, rlog, rpairs, nFrames, s,
                 key, val, pre>>
  /\ UNCHANGED writeVars

\* Lines 66-68.  A negative token read into a size_t wraps to a count that
\* resize cannot allocate.
ReadFrameCount ==
  /\ rpc = "nframes"
  /\ LET r == ExtractInt(in)
     IN /\ in' = r.in
        /\ undef' = (undef \/ ~r.set)
        /\ \E n \in (IF r.set THEN {r.v} ELSE UninitSize) :
             /\ nFrames' = n
             /\ IF r.set /\ r.neg
                THEN /\ err' = "std::length_error"
                     /\ rpc' = "error"
                     /\ frames' = frames
                ELSE /\ frames' = Resize(frames, n)
                     /\ rpc' = "frames"
                     /\ err' = err
  /\ ri' = 0
  /\ UNCHANGED <<map, keyframe, numUnits, arg, ret, rj, rlog, rpairs, diffed,
                 width, height, s, key, val, pre>>
  /\ UNCHANGED writeVars

\* Lines 69-85: one iteration of the frame loop.
ReadFrame ==
  /\ rpc = "frames"
  /\ ri < nFrames
  /\ LET r == ExtractFrame(in)
     IN IF ReaderFull(ri, keyframe)
        THEN /\ frames' = [frames EXCEPT ![ri + 1] = r.f]
             /\ in' = r.in
             /\ rlog' = Append(rlog, [i |-> ri, role |-> "Frame", ref |-> ri, prev |-> TRUE])
             /\ rpc' = "frames"
        ELSE IF ri >= 1 /\ frames[ri] # <<>>
        THEN /\ frames' = [frames EXCEPT ![ri + 1] = frame_undiff(r.f, frames[ri])]
             /\ in' = r.in
             /\ rlog' = Append(rlog, [i |-> ri, role |-> "FrameDiff", ref |-> ri - 1, prev |-> TRUE])
             /\ rpc' = "frames"
        ELSE /\ frames' = frames
             /\ in' = r.in
             /\ rlog' = Append(rlog, [i |-> ri, role |-> "FrameDiff", ref |-> ri - 1, prev |-> FALSE])
             /\ rpc' = "segv"
  /\ ri' = ri + 1
  /\ UNCHANGED <<map, keyframe, numUnits, arg, ret, rj, rpairs, diffed, width,
                 height, nFrames, s, err, key, val, pre, undef>>
  /\ UNCHANGED writeVars

\* Lines 87-90.
ReadCount ==
  /\ rpc = "frames"
  /\ ri >= nFrames
  /\ LET r == ExtractInt(in)
     IN /\ in' = r.in
        /\ undef' = (undef \/ ~r.set)
        /\ \E n \in (IF r.set THEN {r.v} ELSE UninitInt) :
             /\ s' = n
             /\ IF BadCount(n)
                THEN /\ err' = "Corrupted replay: s < 0"
                     /\ rpc' = "error"
                ELSE /\ err' = err
                     /\ rpc' = "pairs"
  /\ rj' = 0
  /\ UNCHANGED <<arg, ret, ri, rlog, rpairs, diffed, width, height, nFrames,
                 key, val, pre>>
  /\ UNCHANGED replayVars
  /\ UNCHANGED writeVars

\* Lines 92-95: one iteration of the pair loop.
ReadPair ==
  /\ rpc = "pairs"
  /\ rj < s
  /\ LET r1 == ExtractInt(in)
         r2 == ExtractInt(r1.in)
     IN /\ in' = r2.in
        /\ undef' = (undef \/ (~r1.set /\ key = <<>>) \/ (~r2.set /\ val = <<>>))
        /\ \E k \in (IF r1.set THEN {r1.v} ELSE IF key = <<>> THEN UninitInt ELSE {key[1]}),
              v \in (IF r2.set THEN {r2.v} ELSE IF val = <<>> THEN UninitInt ELSE {val[1]}) :
             /\ key' = <<k>>
             /\ val' = <<v>>
             /\ numUnits' = Store(numUnits, k, v)
             /\ rpairs' = Append(rpairs, <<k, v>>)
  /\ rj' = rj + 1
  /\ UNCHANGED <<map, keyframe, frames, arg, ret, rpc, ri, rlog, diffed, width,
                 height, nFrames, s, err, pre>>
  /\ UNCHANGED writeVars

\* Line 97.
ReadReturn ==
  /\ rpc = "pairs"
  /\ rj >= s
  /\ rpc' = "done"
  /\ UNCHANGED <<arg, ret, in, ri, rj, rlog, rpairs, diffed, width, height,
                 nFrames, s, err, key, val, pre, undef>>
  /\ UNCHANGED replayVars
  /\ UNCHANGED writeVars

\* --------------------------------------------- write a replay, read it back
\* Maps of at most MaxTiles tiles; the tile bytes include 32 (' ') and 48 ('0').
SetMapSmall ==
  \E w \in 1..MaxTiles, h \in 1..MaxTiles :
    /\ w * h <= MaxTiles
    /\ ~map.alloc
    /\ \E a \in {0, 4} :
         setMap(w, h, Cyc(FlagVals, w * h, a), Cyc(HeightVals, w * h, a),
                Cyc(FlagVals, w * h, a + 1), <<0>>, <<0>>)

SetKeyFrameAny == \E x \in 0..MaxKeyframe : setKeyFrame(x)
PushAny == \E f \in 0..(FrameMod - 1) : push(f)
SetNumUnitsAny == \E k \in 1..MaxUnitKey : setNumUnits(k, UnitVal(k))

\* operator>> on the stream operator<< produced.
ReadBack ==
  /\ wpc = "done"
  /\ rpc = "idle"
  /\ ReadBegin(out)

Next ==
  \/ SetMapSmall \/ SetKeyFrameAny \/ PushAny \/ SetNumUnitsAny
  \/ WriteNullMap \/ WriteHeader \/ WriteFrame \/ WriteUnitCount \/ WriteUnit
  \/ WriteReturn \/ NewReplayer \/ ReadBack
  \/ ReadHeader \/ ReadFrameCount \/ ReadFrame \/ ReadCount \/ ReadPair \/ ReadReturn

Spec == Init /\ [][Next]_vars

\* ------------------------------------------- reading streams of any content
RECURSIVE Txt(_)
Txt(toks) == IF toks = <<>> THEN <<>> ELSE FormatInt(Head(toks)) \o SP \o Txt(Tail(toks))

\* Replay files as a reader may meet them: well-formed ones, and ones with
\* tile bytes, sizes and counts no writer produces.
Files ==
  { Txt(<<1, 1>>) \o <<255>> \o Txt(<<0, 0>>),
    Txt(<<0, 2, 1, 2>>) \o <<3, 36>> \o Txt(<<3, 1, 1, 0, 3, 1, 5, 2, 6, 1, 7>>),
    Txt(<<2, 1>>) \o <<48, 32>> \o Txt(<<1, 1, 1, 2, 9>>),
    Txt(<<0, 1, 0, 3>>),
    Txt(<<0, 1, 2, -1>>),
    Txt(<<2, 0>>),
    Txt(<<-1, 2>>),
    Txt(<<1, 1>>) \o <<7>> \o Txt(<<0, -1, 1, 5>>),
    Txt(<<1, 1>>) \o <<7>> \o Txt(<<-1>>),
    Txt(<<1, 1>>) \o <<7>> \o Txt(<<0, 1, 5>>) \o <<45>>,
    <<97>> }

\* The file may end early: any prefix of a file is a file too.
Feed == \E f \in Files : \E n \in 0..Len(f) : ReadBegin(SubSeq(f, 1, n))

SetMapIn ==
  \E a \in {0, 4} :
    setMap(1, 1, Cyc(FlagVals, 1, a), Cyc(HeightVals, 1, a),
           Cyc(FlagVals, 1, a + 1), <<0>>, <<0>>)

NextIn ==
  \/ SetMapIn \/ SetNumUnitsAny \/ Feed
  \/ ReadHeader \/ ReadFrameCount \/ ReadFrame \/ ReadCount \/ ReadPair \/ ReadReturn

SpecIn == Init /\ [][NextIn]_vars

\* ------------------------------------------------- the packed map store alone
SetMapAny ==
  \E w \in 1..MaxDim, h \in 1..MaxDim :
    \E a \in 0..(Len(HeightVals) - 1) :
      \E st \in StartLists(w, h) :
        setMap(w, h, Cyc(FlagVals, w * h, a), Cyc(HeightVals, w * h, a),
               Cyc(FlagVals, w * h, a + 1),
               [k \in 1..Len(st) |-> st[k][1]], [k \in 1..Len(st) |-> st[k][2]])

NextMap == SetMapAny \/ getMap
SpecMap == Init /\ [][NextMap]_vars

\* ------------------------------------------------------------------ claims
\* C1: a Replayer with a map of positive width and height, written by
\* operator<< and read by operator>> into an empty Replayer, comes back equal
\* field for field: keyframe, map size and tiles, frames, numUnits.
RoundTrip == (rpc = "done" /\ pre = EmptyReplayer) => Replayer = written

RoundTripWitness ==
  /\ rpc = "done"
  /\ pre = EmptyReplayer
  /\ written.keyframe = 3
  /\ Len(written.frames) = MaxFrames
  /\ written.frames[2] # written.frames[3]
  /\ Cardinality(DOMAIN written.numUnits) = 2
  /\ written.map.w * written.map.h = 2

\* The effective keyframe interval of the replay that was written.
EffectiveKeyframe == IF written.keyframe = 0 THEN 1 ELSE written.keyframe

RolesAsSpecified(log) ==
  \A p \in 1..Len(log) :
    /\ log[p].i = p - 1
    /\ (log[p].role = "Frame") <=> ((p - 1) % EffectiveKeyframe = 0)
    /\ (log[p].role = "FrameDiff") <=> ((p - 1) % EffectiveKeyframe # 0)
    /\ (log[p].role = "FrameDiff") => (log[p].ref = p - 2)

\* C2: the writer emits a full Frame at position i iff
\* i % effective_keyframe = 0 and a FrameDiff against frames[i-1] otherwise;
\* the reader takes a full Frame at exactly the same positions and undiffs at
\* the others; both handle every position 0..N-1.
KeyframeRoles ==
  /\ RolesAsSpecified(wlog)
  /\ RolesAsSpecified(rlog)
  /\ (wpc \in {"units", "done"}) => (Len(wlog) = Len(written.frames))
  /\ (rpc \in {"pairs", "done"}) => (rlog = wlog)

KeyframeRolesWitness ==
  /\ rpc = "done"
  /\ written.keyframe = 3
  /\ Len(rlog) = 4
  /\ rlog[1].role = "Frame"
  /\ rlog[2].role = "FrameDiff"
  /\ rlog[3].role = "FrameDiff"
  /\ rlog[4].role = "Frame"

\* C3: getMap after setMap returns, at every (x, y), the walkability and
\* buildability given when they are 0 or 1 and the ground height given when it
\* is 0..5; a ground height above 5 is stored and returned as value & 0b111;
\* the start locations returned are, as a set, the ones given.
MapPackingRoundTrip ==
  ret.called =>
    /\ \A p \in 1..(arg.w * arg.h) :
         /\ (arg.walkability[p] \in {0, 1}) => (ret.walkability[p] = arg.walkability[p])
         /\ (arg.buildability[p] \in {0, 1}) => (ret.buildability[p] = arg.buildability[p])
         /\ (arg.ground_height[p] <= 5) => (ret.ground_height[p] = arg.ground_height[p])
         /\ (arg.ground_height[p] > 5) =>
              /\ ret.ground_height[p] = arg.ground_height[p] % 8
              /\ (map.data[p] \div 4) % 8 = arg.ground_height[p] % 8
    /\ Len(ret.walkability) = arg.w * arg.h
    /\ Len(ret.start_loc_x) = Len(ret.start_loc_y)
    /\ { <<ret.start_loc_x[k], ret.start_loc_y[k]>> : k \in 1..Len(ret.start_loc_x) }
         = { <<arg.start_loc_x[k], arg.start_loc_y[k]>> : k \in 1..Len(arg.start_loc_x) }

MapPackingWitness ==
  /\ ret.called
  /\ arg.w = 2 /\ arg.h = 2
  /\ Len(arg.start_loc_x) = 3
  /\ Len(ret.start_loc_x) = 2
  /\ arg.ground_height = <<3, 4, 5, 6>>
  /\ arg.walkability[1] = 1 /\ arg.buildability[1] = 0

\* C4: every tile byte of the stored map has bits 6 and 7 clear, after any
\* setMap calls and stream reads.  Stated for the reads that used no
\* uninitialised memory, so that a violation is the code's defined behaviour.
ReservedBitsZero ==
  (map.alloc /\ ~undef) => \A p \in 1..Len(map.data) : map.data[p] < 64

\* C5 as stated: the ground height stored in bits 2-4 of every tile that
\* setMap built is in 0..5.
HeightAtMostFive ==
  (map.alloc /\ arg.w > 0) =>
    \A p \in 1..Len(map.data) : (map.data[p] \div 4) % 8 \in 0..5

\* C5, amended: the ground height stored in bits 2-4 of every tile that setMap
\* built, and returned by getMap, is the input byte & 0b111: it is in 0..7,
\* and in 0..5 whenever the input byte is in 0..5.
HeightIsInputLowBits ==
  (map.alloc /\ arg.w > 0) =>
    \A p \in 1..Len(map.data) :
      /\ (map.data[p] \div 4) % 8 = arg.ground_height[p] % 8
      /\ (map.data[p] \div 4) % 8 \in 0..7
      /\ (arg.ground_height[p] \in 0..5) => ((map.data[p] \div 4) % 8 \in 0..5)
      /\ ret.called => (ret.ground_height[p] = arg.ground_height[p] % 8)

HeightWitness ==
  /\ ret.called
  /\ \E p \in 1..Len(map.data) : arg.ground_height[p] = 6 /\ ret.ground_height[p] = 6
  /\ \E p \in 1..Len(map.data) : arg.ground_height[p] = 8 /\ ret.ground_height[p] = 0

\* C6: a read that finds the map width or height zero or negative throws
\* "Corrupted replay: invalid map size" and leaves the map as it was.
InvalidMapSize ==
  /\ (rpc \notin {"idle", "header"} /\ (width <= 0 \/ height <= 0)) =>
       /\ rpc = "error"
       /\ err = "Corrupted replay: invalid map size"
       /\ map = pre.map
  /\ (err = "Corrupted replay: invalid map size") =>
       (map = pre.map /\ (width <= 0 \/ height <= 0))

InvalidMapSizeWitness ==
  /\ rpc = "error"
  /\ err = "Corrupted replay: invalid map size"
  /\ width = 0
  /\ height = 3
  /\ ~in.fail
  /\ pre.map.alloc

\* C7: a negative entry count s throws "Corrupted replay: s < 0" before any
\* pair is read: numUnits is as it was before the read.
NegativeCount ==
  (s < 0) =>
    /\ rpc = "error"
    /\ err = "Corrupted replay: s < 0"
    /\ rpairs = <<>>
    /\ numUnits = pre.numUnits

NegativeCountWitness ==
  /\ s = 0 - 1
  /\ err = "Corrupted replay: s < 0"
  /\ ~in.fail
  /\ in.pos < Len(in.buf)
  /\ DOMAIN pre.numUnits # {}

\* C8: a read whose stream ended before the protocol was complete never
\* returns normally.  Stated for the reads that used no uninitialised memory,
\* so that a violation is the code's defined behaviour.
TruncatedRaises == (in.eof /\ in.fail /\ ~undef) => rpc # "done"

\* The last pair stored under key k.
RECURSIVE LastVal(_, _, _)
LastVal(pairs, k, p) ==
  IF pairs[p][1] = k THEN pairs[p][2] ELSE LastVal(pairs, k, p - 1)

RECURSIVE Flat(_)
Flat(pairs) == IF pairs = <<>> THEN <<>> ELSE Head(pairs) \o Flat(Tail(pairs))

\* C9: a successful read stores exactly s (key, value) pairs, the ones the
\* stream holds after the count; every key among them ends with the value of
\* its last pair, and every other key keeps the value it had.
UnitDecoding ==
  (rpc = "done") =>
    /\ Len(rpairs) = s
    /\ DOMAIN numUnits = DOMAIN pre.numUnits \cup { rpairs[p][1] : p \in 1..Len(rpairs) }
    /\ \A p \in 1..Len(rpairs) :
         numUnits[rpairs[p][1]] = LastVal(rpairs, rpairs[p][1], Len(rpairs))
    /\ \A k \in DOMAIN pre.numUnits :
         (k \notin { rpairs[p][1] : p \in 1..Len(rpairs) }) => (numUnits[k] = pre.numUnits[k])
    /\ (~in.fail /\ s > 0) =>
         LET text == Txt(Flat(rpairs))
         IN SubSeq(in.buf, in.pos + 2 - Len(text), in.pos) = SubSeq(text, 1, Len(text) - 1)

UnitDecodingWitness ==
  /\ rpc = "done"
  /\ ~in.fail
  /\ s = 3
  /\ rpairs = << <<1, 5>>, <<2, 6>>, <<1, 7>> >>
  /\ numUnits[1] = 7
  /\ numUnits[2] = 6

\* C10: a position handled as a FrameDiff, by the writer or by the reader, has
\* i >= 1 and refers to frames[i-1], which is a frame already; position 0 is
\* a full Frame.
SequentialDependency ==
  /\ \A p \in 1..Len(wlog) :
       (wlog[p].role = "FrameDiff") => (wlog[p].i >= 1 /\ wlog[p].ref >= 0 /\ wlog[p].prev)
  /\ \A p \in 1..Len(rlog) :
       (rlog[p].role = "FrameDiff") => (rlog[p].i >= 1 /\ rlog[p].ref >= 0 /\ rlog[p].prev)
  /\ (Len(wlog) > 0) => (wlog[1].role = "Frame")
  /\ (Len(rlog) > 0) => (rlog[1].role = "Frame")
  /\ (rpc = "frames" /\ ri >= 1) => (frames[ri] # <<>>)
  /\ wpc # "segv" \/ ~written.map.alloc
  /\ rpc # "segv"

SequentialDependencyWitness ==
  /\ rpc = "done"
  /\ written.keyframe = MaxKeyframe
  /\ Len(rlog) = MaxFrames
  /\ \A p \in 2..Len(rlog) : rlog[p].role = "FrameDiff" /\ wlog[p].role = "FrameDiff"

====
